---- MODULE Spec2Model ----
(***************************************************************************)
(* A model of spec-mate: the SpecMate entry point (hook registry and       *)
(* request()), the RequestBuilder (request configuration, mutators,        *)
(* deferred assertion queue) and the asynchronous run() pipeline.          *)
(*                                                                         *)
(* run() is an async function: it is modelled as the synchronous segments  *)
(* between its await points.  The hooks, the transport (axios) and the     *)
(* matcher library (chai) are collaborators: their behaviour is an input.  *)
(***************************************************************************)
EXTENDS Integers, Sequences, FiniteSets, TLC

VARIABLES
    hooks,      \* SpecMate.hooks, shared by reference with every builder
    objs,       \* header objects handed to request() (context.headers)
    builders,   \* the RequestBuilder instances created so far
    pending,    \* creation-time beforeRequest invocations still suspended
    runs,       \* the run() invocations started so far
    netCalls,   \* number of requests the transport has been handed
    probe       \* outcome of the last direct call of a queued closure

vars == <<hooks, objs, builders, pending, runs, netCalls, probe>>

(***************************************************************************)
(* Bounds of the model.                                                    *)
(***************************************************************************)
MaxBuilders == 1
MaxQueue == 2
MaxRuns == 1
MaxReruns == 2
MaxMutations == 2
MaxShared == 2

(***************************************************************************)
(* Values.                                                                 *)
(***************************************************************************)
None == "none"              \* undefined / absent
Unset == "unset"            \* a config field never assigned
BaseUrl == "https://api.example.com"
Token == "Bearer t"

Events == {"beforeRequest", "afterRequest", "beforeTest", "afterTest"}

\* Hook functions the caller may register (HookFunction is caller code):
\*   setAuth       context.headers["Authorization"] = Token, synchronously
\*   setAuthAsync  the same, after the hook has suspended once
\*   log           reads its argument, changes nothing
\*   logAsync      the same, after the hook has suspended once
\*   raise         throws
\*   reject        suspends once, then throws: its promise rejects
\*   setUrl        context.endpoint = "/v2", synchronously
\*   setUrlAsync   the same, after the hook has suspended once
\*   follow        context.maxRedirects = 5, synchronously
\*   followAsync   the same, after the hook has suspended once
HookKinds ==
    {"setAuth", "setAuthAsync", "log", "logAsync", "raise", "reject",
     "setUrl", "setUrlAsync", "follow", "followAsync"}

IsAsyncHook(h) ==
    h \in {"setAuthAsync", "logAsync", "reject", "setUrlAsync", "followAsync"}
SetsAuth(h) == h \in {"setAuth", "setAuthAsync"}

\* Strings that are searched (prefix, substring) are sequences of characters.
StartsWith(s, p) == Len(p) <= Len(s) /\ SubSeq(s, 1, Len(p)) = p

Includes(s, p) ==
    \E i \in 0..(Len(s) - Len(p)) : SubSeq(s, i + 1, i + Len(p)) = p

\* String.prototype.toLowerCase over the header names of the model.
ToLowerCase(name) ==
    CASE name = "Content-Type" -> "content-type"
      [] name = "Set-Cookie" -> "set-cookie"
      [] name = "X-Powered-By" -> "x-powered-by"
      [] OTHER -> name

\* JSON values are tagged: strings, arrays, objects and undefined.
JUndef == [t |-> "undef", v |-> <<>>]
JStr(s) == [t |-> "str", v |-> s]
JArr(a) == [t |-> "arr", v |-> a]
JObj(o) == [t |-> "obj", v |-> o]

John == <<"J", "o", "h", "n">>
Jane == <<"J", "a", "n", "e">>
UsersBody ==
    JObj("results" :> JArr(<<JObj("name" :> JStr(John)),
                             JObj("name" :> JStr(Jane))>>))
EmptyBody == JStr(<<>>)
NotFoundBody == JStr(<<"n", "o">>)

AppJson == <<"a", "p", "p", "/", "j", "s", "o", "n">>
SessionCookie == <<"s", "=", "a", "b", "c">>

\* Responses the transport may deliver (status, header mapping, body).
R200 == [status |-> 200,
         headers |-> ("content-type" :> AppJson),
         data |-> UsersBody]
R302 == [status |-> 302,
         headers |-> ("set-cookie" :> <<SessionCookie>>),
         data |-> EmptyBody]
R404 == [status |-> 404,
         headers |-> ("content-type" :> AppJson),
         data |-> NotFoundBody]
Responses == {R200, R302, R404}

\* The Response Slot before any assignment (this.response === undefined).
NoResponse == [status |-> 0, headers |-> <<>>, data |-> JUndef]

\* What the awaited axios(config) promise settles to: a response, or an
\* error that may carry an attached response (error.response).
TransportOutcomes ==
    [ok : {TRUE}, response : Responses]
        \cup [ok : {FALSE}, response : Responses \cup {NoResponse}]

(***************************************************************************)
(* The assertion closures.  A queued closure is the record of the          *)
(* parameters it captured: kind, numbers n and m, a name s, character      *)
(* sequences p and q, and a JSON value j.                                  *)
(***************************************************************************)
Assertion(kind, n, m, s, p, q, j) ==
    [kind |-> kind, n |-> n, m |-> m, s |-> s, p |-> p, q |-> q, j |-> j]

expectStatus(n) == Assertion("expectStatus", n, 0, "", <<>>, <<>>, JUndef)
expectHeader(s, q) == Assertion("expectHeader", 0, 0, s, <<>>, q, JUndef)
expectHeaderExists(s) ==
    Assertion("expectHeaderExists", 0, 0, s, <<>>, <<>>, JUndef)
expectHeaderNotExists(s) ==
    Assertion("expectHeaderNotExists", 0, 0, s, <<>>, <<>>, JUndef)
expectJson(j) == Assertion("expectJson", 0, 0, "", <<>>, <<>>, j)
expectJsonPath(q, j) == Assertion("expectJsonPath", 0, 0, "", <<>>, q, j)
expectJsonLength(q, n) ==
    Assertion("expectJsonLength", n, 0, "", <<>>, q, JUndef)
expectBodyContains(q) ==
    Assertion("expectBodyContains", 0, 0, "", <<>>, q, JUndef)
expectBodyMatches(q) ==
    Assertion("expectBodyMatches", 0, 0, "", <<>>, q, JUndef)
expectContentType(q) ==
    Assertion("expectContentType", 0, 0, "", <<>>, q, JUndef)
expectStatusInRange(n, m) ==
    Assertion("expectStatusInRange", n, m, "", <<>>, <<>>, JUndef)
expectRedirect == Assertion("expectRedirect", 0, 0, "", <<>>, <<>>, JUndef)
expectCookie(p, q) == Assertion("expectCookie", 0, 0, "", p, q, JUndef)
expectCookieContains(p, q) ==
    Assertion("expectCookieContains", 0, 0, "", p, q, JUndef)
\* s says what the caller's function does with the response it is given.
customAssertion(s) == Assertion("customAssertion", 0, 0, s, <<>>, <<>>, JUndef)
expectJsonKeyExists(s) ==
    Assertion("expectJsonKeyExists", 0, 0, s, <<>>, <<>>, JUndef)
expectJsonKeyNotExists(s) ==
    Assertion("expectJsonKeyNotExists", 0, 0, s, <<>>, <<>>, JUndef)

AssertionKinds ==
    {"expectStatus", "expectHeader", "expectHeaderExists",
     "expectHeaderNotExists", "expectJson", "expectJsonPath",
     "expectJsonLength", "expectBodyContains", "expectBodyMatches",
     "expectContentType", "expectStatusInRange", "expectRedirect",
     "expectCookie", "expectCookieContains", "customAssertion",
     "expectJsonKeyExists", "expectJsonKeyNotExists"}

\* Outcomes of evaluating a closure.
Ok == "ok"
Precondition == "Response is not available. Run the request first."
Mismatch == "AssertionError"

\* Decimal index tokens of a path.
IndexOf(tok) ==
    CASE tok = "0" -> 1
      [] tok = "1" -> 2
      [] tok = "2" -> 3
      [] OTHER -> 0

\* value[key] for a key or index token; undefined when absent.
PropertyRead(value, tok) ==
    CASE value.t = "obj" ->
            IF tok \in DOMAIN value.v THEN value.v[tok] ELSE JUndef
      [] value.t = "arr" ->
            IF IndexOf(tok) \in 1..Len(value.v)
                THEN value.v[IndexOf(tok)] ELSE JUndef
      [] OTHER -> JUndef

\* JavaScript falsiness of the values of the model.
Falsy(value) == value.t = "undef" \/ (value.t = "str" /\ value.v = <<>>)

\* path.split("."): the runs of tokens between "." tokens.
RECURSIVE SplitDots(_, _)
SplitDots(toks, cur) ==
    IF toks = <<>> THEN <<cur>>
    ELSE IF Head(toks) = "."
        THEN <<cur>> \o SplitDots(Tail(toks), <<>>)
        ELSE SplitDots(Tail(toks), Append(cur, Head(toks)))

\* acc[part] where part is one piece of the split path: a piece of several
\* tokens, such as results[0], names a property no modelled value has.
PartRead(acc, part) ==
    IF Len(part) = 1 THEN PropertyRead(acc, part[1]) ELSE JUndef

\* .reduce((acc, part) => acc && acc[part], data)
RECURSIVE ReduceParts(_, _)
ReduceParts(parts, acc) ==
    IF parts = <<>> THEN acc
    ELSE ReduceParts(Tail(parts),
                     IF Falsy(acc) THEN acc ELSE PartRead(acc, Head(parts)))

\* lodash stringToPath: property names and bracketed indices become keys.
RECURSIVE StringToPath(_)
StringToPath(toks) ==
    IF toks = <<>> THEN <<>>
    ELSE IF Head(toks) \in {".", "[", "]"}
        THEN StringToPath(Tail(toks))
        ELSE <<Head(toks)>> \o StringToPath(Tail(toks))

\* lodash get(object, path): undefined as soon as a step is nullish.
RECURSIVE BaseGet(_, _)
BaseGet(value, keys) ==
    IF keys = <<>> THEN value
    ELSE IF value.t = "undef" THEN JUndef
    ELSE BaseGet(PropertyRead(value, Head(keys)), Tail(keys))

Get(data, path) == BaseGet(data, StringToPath(path))

\* chai .equal is ===: primitives by value, objects and arrays by identity
\* (a caller's literal is never the response's own object).
StrictEqual(a, b) == a.t = b.t /\ a.t \in {"str", "undef"} /\ a.v = b.v

\* chai .deep.equal
DeepEqual(a, b) == a.t = b.t /\ a.v = b.v

\* chai .lengthOf: the value must have a length, and it must be n.
HasLengthOf(value, n) == value.t \in {"arr", "str"} /\ Len(value.v) = n

\* response.headers["set-cookie"] || []
CookiesOf(resp) ==
    IF "set-cookie" \in DOMAIN resp.headers
        THEN resp.headers["set-cookie"] ELSE <<>>

CookiePattern(name, value) == name \o <<"=">> \o value

\* Mutant: the limits of the range are excluded.
Within_Exclusive(x, lo, hi) == lo < x /\ x < hi

\* chai .within(lo, hi): both limits included.
Within(x, lo, hi) == lo <= x /\ x <= hi

\* The comparison each closure makes once the response is known to exist.
Compare(a, resp) ==
    CASE a.kind = "expectStatus" -> resp.status = a.n
      [] a.kind = "expectHeader" ->
            /\ ToLowerCase(a.s) \in DOMAIN resp.headers
            /\ resp.headers[ToLowerCase(a.s)] = a.q
      [] a.kind = "expectHeaderExists" ->
            ToLowerCase(a.s) \in DOMAIN resp.headers
      [] a.kind = "expectHeaderNotExists" ->
            ToLowerCase(a.s) \notin DOMAIN resp.headers
      [] a.kind = "expectJson" -> DeepEqual(resp.data, a.j)
      [] a.kind = "expectJsonPath" -> StrictEqual(Get(resp.data, a.q), a.j)
      [] a.kind = "expectJsonLength" ->
            HasLengthOf(ReduceParts(SplitDots(a.q, <<>>), resp.data), a.n)
      [] a.kind = "expectBodyContains" ->
            resp.data.t = "str" /\ Includes(resp.data.v, a.q)
      [] a.kind = "expectBodyMatches" ->
            resp.data.t = "str" /\ Includes(resp.data.v, a.q)
      [] a.kind = "expectContentType" ->
            /\ "content-type" \in DOMAIN resp.headers
            /\ Includes(resp.headers["content-type"], a.q)
      [] a.kind = "expectStatusInRange" -> Within(resp.status, a.n, a.m)
      [] a.kind = "expectRedirect" -> Within(resp.status, 300, 399)
      [] a.kind = "expectCookie" ->
            \E i \in 1..Len(CookiesOf(resp)) :
                StartsWith(CookiesOf(resp)[i], CookiePattern(a.p, a.q))
      [] a.kind = "expectCookieContains" ->
            \E i \in 1..Len(CookiesOf(resp)) :
                Includes(CookiesOf(resp)[i], CookiePattern(a.p, a.q))
      [] a.kind = "customAssertion" -> a.s = "pass"
      [] a.kind = "expectJsonKeyExists" ->
            PropertyRead(resp.data, a.s) # JUndef
      [] a.kind = "expectJsonKeyNotExists" ->
            PropertyRead(resp.data, a.s) = JUndef

\* Whether the closure begins with `if (!this.response) throw ...`.
\* expectStatus reads this.response?.status instead.
ChecksResponse(kind) == kind # "expectStatus"

\* Evaluating a queued closure against the current Response Slot.
Eval(a, resp) ==
    IF resp = NoResponse
        THEN IF ChecksResponse(a.kind) THEN Precondition
             ELSE \* undefined === expectedStatus never holds for a number
                  Mismatch
        ELSE IF Compare(a, resp) THEN Ok ELSE Mismatch

(***************************************************************************)
(* The Request Configuration and the builder.                              *)
(***************************************************************************)
\* An optional field of the AxiosRequestConfig: <<>> while never assigned,
\* <<x>> once assigned x.
Absent == <<>>
Some(x) == <<x>>

\* object[key] = value on a header mapping.
Put(map, key, value) ==
    [k \in DOMAIN map \cup {key} |-> IF k = key THEN value ELSE map[k]]

\* Mutant: the headers are replaced, not merged.
MergeHeaders_Replace(old, new) == new

\* { ...old, ...new }: the keys of both, new winning on the keys they share.
MergeHeaders(old, new) ==
    [k \in DOMAIN old \cup DOMAIN new |->
        IF k \in DOMAIN new THEN new[k] ELSE old[k]]

\* config.headers is a reference.  It points either at the object that was
\* context.headers in request() (ref > 0, an index of objs, which other
\* holders of that object see too) or at an object only this builder holds
\* (ref = 0, kept in own): the one a withHeaders() spread has created.
SharedHeaders(ref) == [ref |-> ref, own |-> <<>>]
OwnHeaders(map) == [ref |-> 0, own |-> map]

HeadersAt(os, headers) ==
    IF headers.ref = 0 THEN headers.own ELSE os[headers.ref].map

HeadersOf(b) == HeadersAt(objs, builders[b].config.headers)

\* Mutant: the Response Slot starts with a default response.
NewBuilder_DefaultResponse(context, made) ==
    [config |-> [baseURL |-> BaseUrl,
                 url |-> context.endpoint,
                 method |-> Unset,
                 headers |-> SharedHeaders(context.headers),
                 params |-> Absent,
                 data |-> context.body,
                 maxRedirects |-> Absent],
     response |-> R200,
     assertionQueue |-> <<>>,
     context |-> context,
     created |-> made,
     hooked |-> <<>>,
     calls |-> <<>>,
     writes |-> 0]

\* new RequestBuilder(baseUrl, context, hooks)
NewBuilder(context, made) ==
    [config |-> [baseURL |-> BaseUrl,
                 url |-> context.endpoint,
                 method |-> Unset,
                 headers |-> SharedHeaders(context.headers),
                 params |-> Absent,
                 data |-> context.body,
                 maxRedirects |-> Absent],
     response |-> NoResponse,
     assertionQueue |-> <<>>,
     context |-> context,   \* the context object request() built
     created |-> made,      \* the same, by value, at construction
     hooked |-> <<>>,       \* the hook calls request() made for it
     calls |-> <<>>,        \* history of the mutator calls made on it
     writes |-> 0]          \* number of assignments to this.response

Call(op, s, h) == [op |-> op, s |-> s, h |-> h]

Builders == 1..Len(builders)
Runs == 1..Len(runs)

(***************************************************************************)
(* SpecMate.on and SpecMate.request                                        *)
(***************************************************************************)
on(event, hook) ==
    /\ hooks' = [hooks EXCEPT ![event] = hook]
    /\ UNCHANGED <<objs, builders, pending, runs, netCalls, probe>>

\* What a beforeRequest hook has done to the header object it was handed by
\* the time its call returns.
HookSyncEffect(hook, map) ==
    IF hook = "setAuth" THEN Put(map, "Authorization", Token) ELSE map

\* What it does to the header object when it resumes after suspending.
HookAsyncEffect(hook, map) ==
    IF hook = "setAuthAsync" THEN Put(map, "Authorization", Token) ELSE map

\* What the hook has done to context.endpoint by the time its call returns,
\* and when it resumes after suspending.
Rewritten == "/v2"

HookSyncEndpoint(hook, endpoint) ==
    IF hook = "setUrl" THEN Rewritten ELSE endpoint

HookAsyncEndpoint(hook, endpoint) ==
    IF hook = "setUrlAsync" THEN Rewritten ELSE endpoint

\* Mutant: request() calls the hook a second time.
CreationCalls_Twice(hook) == IF hook = None THEN <<>> ELSE <<hook, hook>>

\* if (this.hooks.beforeRequest) this.hooks.beforeRequest(context): the
\* hook calls request() makes.
CreationCalls(hook) == IF hook = None THEN <<>> ELSE <<hook>>

\* Mutant: the builder is made from the context as it was before the hook.
SeedContext_BeforeHook(passed, hooked) == passed

\* new RequestBuilder(this.baseUrl, context, this.hooks) comes after the
\* hook call: the constructor reads the context the hook has worked on.
SeedContext(passed, hooked) == hooked

\* request(endpoint, headers, body).  arg = 0: the caller passes a header
\* object it has not passed before (or none, and the default {} is made),
\* holding `map`; arg > 0: the caller passes objs[arg] again.  request()
\* throws, and builds nothing, when the hook throws.
request(endpoint, arg, map, caller, body) ==
    LET ref == IF arg = 0 THEN Len(objs) + 1 ELSE arg
        hook == hooks["beforeRequest"]
        os == IF arg = 0
                THEN Append(objs, [map |-> map, caller |-> caller])
                ELSE objs
        passed == [endpoint |-> endpoint, headers |-> ref, body |-> body]
        context == [passed EXCEPT
                        !.endpoint = HookSyncEndpoint(hook, endpoint)]
        seed == SeedContext(passed, context)
    IN  /\ arg = 0 \/ (arg \in 1..Len(objs) /\ objs[arg].caller /\ map = <<>>)
        /\ hook # "raise"
        /\ objs' = IF hook = None THEN os
                   ELSE [os EXCEPT ![ref].map = HookSyncEffect(hook, @)]
        /\ pending' = IF hook # None /\ IsAsyncHook(hook)
                        THEN pending \cup
                                {[b |-> Len(builders) + 1, hook |-> hook,
                                  headers |-> ref]}
                        ELSE pending
        /\ builders' = Append(builders,
                [NewBuilder(seed, [seed EXCEPT !.headers = objs'[ref].map])
                    EXCEPT !.context = context,
                           !.hooked = CreationCalls(hook)])
        /\ UNCHANGED <<hooks, runs, netCalls, probe>>

\* The creation-time hook, never awaited by request(), resumes.
CreationHookResume(p) ==
    /\ p \in pending
    /\ pending' = pending \ {p}
    /\ objs' = [objs EXCEPT ![p.headers].map = HookAsyncEffect(p.hook, @)]
    /\ builders' = [builders EXCEPT
                        ![p.b].context.endpoint = HookAsyncEndpoint(p.hook, @)]
    /\ UNCHANGED <<hooks, runs, netCalls, probe>>

(***************************************************************************)
(* The mutators.                                                           *)
(***************************************************************************)
withMethod(b, method) ==
    /\ b \in Builders
    /\ Len(builders[b].calls) < MaxMutations
    /\ builders' = [builders EXCEPT
                        ![b].config.method = method,
                        ![b].calls = Append(@, Call("withMethod", method, <<>>))]
    /\ UNCHANGED <<hooks, objs, pending, runs, netCalls, probe>>

withHeaders(b, headers) ==
    /\ b \in Builders
    /\ Len(builders[b].calls) < MaxMutations
    /\ builders' = [builders EXCEPT
                        ![b].config.headers =
                            OwnHeaders(MergeHeaders(HeadersOf(b), headers)),
                        ![b].calls = Append(@, Call("withHeaders", "", headers))]
    /\ UNCHANGED <<hooks, objs, pending, runs, netCalls, probe>>

withQueryParams(b, params) ==
    /\ b \in Builders
    /\ Len(builders[b].calls) < MaxMutations
    /\ builders' = [builders EXCEPT
                        ![b].config.params = Some(params),
                        ![b].calls =
                            Append(@, Call("withQueryParams", "", params))]
    /\ UNCHANGED <<hooks, objs, pending, runs, netCalls, probe>>

withBody(b, body) ==
    /\ b \in Builders
    /\ Len(builders[b].calls) < MaxMutations
    /\ builders' = [builders EXCEPT
                        ![b].config.data = body,
                        ![b].calls = Append(@, Call("withBody", body, <<>>))]
    /\ UNCHANGED <<hooks, objs, pending, runs, netCalls, probe>>

(***************************************************************************)
(* The assertion registrants: each pushes one closure.                     *)
(***************************************************************************)
\* Mutant: the new closure takes the place of the queue.
register_Replace(b, assertion) ==
    /\ b \in Builders
    /\ Len(builders[b].assertionQueue) < MaxQueue
    /\ builders' = [builders EXCEPT ![b].assertionQueue = <<assertion>>]
    /\ UNCHANGED <<hooks, objs, pending, runs, netCalls, probe>>

register(b, assertion) ==
    /\ b \in Builders
    /\ Len(builders[b].assertionQueue) < MaxQueue
    /\ builders' = [builders EXCEPT
                        ![b].assertionQueue = Append(@, assertion)]
    /\ UNCHANGED <<hooks, objs, pending, runs, netCalls, probe>>

(***************************************************************************)
(* run().  A run() invocation is a record: the builder it runs on, where   *)
(* it is suspended (pc), the hook call it awaits and whether that call's   *)
(* promise has settled, and the error it rejected with.  The other fields  *)
(* record what it did:                                                     *)
(*   prior    the run() calls on the builder that had resolved at its start*)
(*   before, after  the beforeRequest and the afterRequest hook it called  *)
(*   tests    what was registered under beforeTest and afterTest at its    *)
(*            start                                                        *)
(*   trace    its events in order; a hook event carries 1 if the hook      *)
(*            suspended                                                    *)
(*   started, sentAt  the number of mutator calls made on the builder when *)
(*            run() was called and when the transport was called           *)
(*   sent     the request description the transport received               *)
(*   reply    what the transport call settled to                           *)
(*   own      the response this run stored, wrote: as which assignment     *)
(*   arg      the argument of afterRequest                                 *)
(*   queue, seen, seenWrite  the queue it flushed, the Response Slot the   *)
(*            closures read, and which assignment that was                 *)
(***************************************************************************)
Event(e, i) == [e |-> e, i |-> i]

NoError == [kind |-> "none", response |-> NoResponse, index |-> 0]
HookError == [kind |-> "hook", response |-> NoResponse, index |-> 0]
TransportError(outcome) ==
    [kind |-> "transport", response |-> outcome.response, index |-> 0]
AssertionFailure(kind, i) ==
    [kind |-> kind, response |-> NoResponse, index |-> i]

NewRun(b) ==
    [b |-> b, pc |-> "start", hook |-> None, hookDone |-> FALSE,
     error |-> NoError,
     prior |-> {r \in Runs : runs[r].b = b /\ runs[r].pc = "resolved"},
     before |-> None, after |-> None,
     tests |-> <<hooks["beforeTest"], hooks["afterTest"]>>,
     trace |-> <<>>,
     started |-> Len(builders[b].calls), sentAt |-> 0,
     sent |-> Absent, reply |-> Absent,
     own |-> NoResponse, wrote |-> 0, arg |-> NoResponse,
     queue |-> <<>>, seen |-> NoResponse, seenWrite |-> 0]

\* The request description axios receives: the configuration as it is at
\* the moment of the call, header object read through the reference.
Snapshot(os, config) ==
    [baseURL |-> config.baseURL, url |-> config.url,
     method |-> config.method, headers |-> HeadersAt(os, config.headers),
     params |-> config.params, data |-> config.data,
     maxRedirects |-> config.maxRedirects]

\* Mutant: run() leaves the redirect limit as it finds it.
SendConfig_Keep(config) == config

\* this.config.maxRedirects = 0; axios(this.config)
SendConfig(config) == [config EXCEPT !.maxRedirects = Some(0)]

\* Mutant: run() hands the hook the context of request(), not this.config.
HookTarget_Context(b) == SharedHeaders(builders[b].context.headers)

\* this.hooks.beforeRequest(this.config): the header object the hook
\* reaches through its argument, context.headers.
HookTarget(b) == builders[b].config.headers

\* context.maxRedirects = 5 by the hook run() called with this.config: the
\* redirect limit of the configuration after the call (resumed = FALSE) or
\* after the hook has resumed.
HookRedirects(hook, resumed, limit) ==
    IF (hook = "follow" /\ ~resumed) \/ (hook = "followAsync" /\ resumed)
        THEN Some(5) ELSE limit

\* context.headers[...] = ... by the hook run() called: the header object
\* is changed in place, at the call or when the hook resumes; so is the
\* redirect limit of this.config.
HookWrites(b, hook, resumed) ==
    LET target == HookTarget(b)
        map == HeadersAt(objs, target)
        new == IF resumed THEN HookAsyncEffect(hook, map)
               ELSE HookSyncEffect(hook, map)
    IN  IF target.ref = 0
            THEN /\ builders' = [builders EXCEPT
                        ![b].config.headers.own = new,
                        ![b].config.maxRedirects =
                            HookRedirects(hook, resumed, @)]
                 /\ UNCHANGED objs
            ELSE /\ objs' = [objs EXCEPT ![target.ref].map = new]
                 /\ builders' = [builders EXCEPT
                        ![b].config.maxRedirects =
                            HookRedirects(hook, resumed, @)]

\* Mutant: the builder holds a copy of the Hook Set made when the entry
\* point was constructed, before any registration.
HooksOf_Copy(b) == [e \in Events |-> None]

\* Mutant: run() reads the test events where it reads the request events.
HooksOf_TestEvents(b) ==
    [e \in Events |->
        CASE e = "beforeRequest" -> hooks["beforeTest"]
          [] e = "afterRequest" -> hooks["afterTest"]
          [] OTHER -> hooks[e]]

\* this.hooks of builder b: the constructor stores the reference it is
\* given, so it is the entry point's own hooks object.
HooksOf(b) == hooks

\* Mutant: an exception of a hook is swallowed.
HookThrows_Swallowed(hook) == FALSE

\* The hook call throws before it returns.
HookThrows(hook) == hook = "raise"

\* The promise the hook returned rejects when the hook resumes.
HookRejects(hook) == hook = "reject"

\* Mutant: axios is called a second time.
NetworkCall_Twice == <<[e |-> "net", i |-> 0], [e |-> "net", i |-> 0]>>

\* The events of the one axios(this.config) call run() makes.
NetworkCall == <<Event("net", 0)>>

\* The synchronous part of run() from the axios call on.
Send(run, os, builder) ==
    [run EXCEPT !.pc = "awaitNet",
                !.hook = None,
                !.sentAt = Len(builder.calls),
                !.sent = Some(Snapshot(os, SendConfig(builder.config))),
                !.trace = @ \o NetworkCall]

\* Mutant: run() does not wait for the promise of the hook.
BeforeSettled_NoAwait(run) == TRUE

\* await this.hooks.beforeRequest(this.config): run() goes on only when
\* the promise the hook returned has settled.
BeforeSettled(run) == run.hookDone

\* Mutant: run() is never resumed after the afterRequest hook.
AfterSettled_Never(run) == FALSE

\* await this.hooks.afterRequest(this.response)
AfterSettled(run) == run.hookDone

\* Mutant: no recovery branch, every transport error is rethrown.
IsRedirectError_Never(outcome) == FALSE

\* Mutant: the upper limit of the status test is missing.
IsRedirectError_NoUpper(outcome) ==
    /\ outcome.response # NoResponse
    /\ outcome.response.status >= 300

\* error.response && error.response.status >= 300 && error.response.status < 400
IsRedirectError(outcome) ==
    /\ outcome.response # NoResponse
    /\ outcome.response.status >= 300
    /\ outcome.response.status < 400

\* Mutant: every closure is called and the first failure is reported last.
RECURSIVE ForEach_CollectAll(_, _, _)
ForEach_CollectAll(queue, resp, i) ==
    IF i > Len(queue) THEN [executed |-> <<>>, error |-> NoError]
    ELSE LET rest == ForEach_CollectAll(queue, resp, i + 1)
             out == Eval(queue[i], resp)
         IN  [executed |-> <<i>> \o rest.executed,
              error |-> IF out # Ok THEN AssertionFailure(out, i)
                        ELSE rest.error]

\* this.assertionQueue.forEach((assert) => assert()): the closures are
\* called in index order from i on, and a throw ends the loop.
RECURSIVE ForEach(_, _, _)
ForEach(queue, resp, i) ==
    IF i > Len(queue) THEN [executed |-> <<>>, error |-> NoError]
    ELSE IF Eval(queue[i], resp) # Ok
        THEN [executed |-> <<i>>,
              error |-> AssertionFailure(Eval(queue[i], resp), i)]
        ELSE LET rest == ForEach(queue, resp, i + 1)
             IN  [executed |-> <<i>> \o rest.executed, error |-> rest.error]

\* The last synchronous part of run(): the queue is flushed against the
\* Response Slot as it is now, and run() resolves or rejects.
Flush(run, builder) ==
    LET res == ForEach(builder.assertionQueue, builder.response, 1)
    IN  [run EXCEPT
            !.pc = IF res.error = NoError THEN "resolved" ELSE "rejected",
            !.hook = None,
            !.error = res.error,
            !.queue = builder.assertionQueue,
            !.seen = builder.response,
            !.seenWrite = builder.writes,
            !.trace = @ \o [k \in 1..Len(res.executed) |->
                                Event("assert", res.executed[k])]]

\* run() is called on builder b.
RunStart(b) ==
    LET hook == HooksOf(b)["beforeRequest"]
        run == NewRun(b)
    IN  /\ b \in Builders
        /\ UNCHANGED <<hooks, pending, probe>>
        /\ IF hook = None
            THEN /\ builders' = [builders EXCEPT
                                    ![b].config = SendConfig(@)]
                 /\ runs' = Append(runs, Send(run, objs, builders[b]))
                 /\ netCalls' = netCalls + Len(NetworkCall)
                 /\ UNCHANGED objs
            ELSE IF HookThrows(hook)
            THEN /\ runs' = Append(runs,
                        [run EXCEPT !.pc = "rejected",
                                    !.error = HookError,
                                    !.before = hook,
                                    !.trace = <<Event("before", 0)>>])
                 /\ UNCHANGED <<objs, builders, netCalls>>
            ELSE /\ HookWrites(b, hook, FALSE)
                 /\ UNCHANGED netCalls
                 /\ runs' = Append(runs,
                        [run EXCEPT
                            !.pc = "awaitBefore",
                            !.hook = hook,
                            !.hookDone = ~IsAsyncHook(hook),
                            !.before = hook,
                            !.trace = IF IsAsyncHook(hook)
                                        THEN <<Event("before", 1)>>
                                        ELSE <<Event("before", 0),
                                               Event("beforeDone", 0)>>])

\* The awaited beforeRequest hook resumes and completes.
BeforeResume(r) ==
    /\ r \in Runs
    /\ runs[r].pc = "awaitBefore"
    /\ ~runs[r].hookDone
    /\ HookWrites(runs[r].b, runs[r].hook, TRUE)
    /\ runs' = [runs EXCEPT ![r] =
                    IF HookRejects(runs[r].hook)
                        THEN [@ EXCEPT !.pc = "rejected", !.hook = None,
                                       !.error = HookError]
                        ELSE [@ EXCEPT
                                !.hookDone = TRUE,
                                !.trace = Append(@, Event("beforeDone", 0))]]
    /\ UNCHANGED <<hooks, pending, netCalls, probe>>

\* run() resumes after the beforeRequest hook and calls the transport.
RunSend(r) ==
    /\ r \in Runs
    /\ runs[r].pc = "awaitBefore"
    /\ BeforeSettled(runs[r])
    /\ builders' = [builders EXCEPT ![runs[r].b].config = SendConfig(@)]
    /\ runs' = [runs EXCEPT
                    ![r] = Send(@, objs, builders[runs[r].b])]
    /\ netCalls' = netCalls + Len(NetworkCall)
    /\ UNCHANGED <<hooks, objs, pending, probe>>

\* Mutant: a response already held is kept (the first one is cached).
StoreResponse_KeepFirst(builder, resp) ==
    IF builder.response # NoResponse THEN builder
    ELSE [builder EXCEPT !.response = resp, !.writes = @ + 1]

\* this.response = ...: the Response Slot is assigned.
StoreResponse(builder, resp) ==
    [builder EXCEPT !.response = resp, !.writes = @ + 1]

\* How run() goes on once this.response is assigned: the afterRequest hook
\* is called with this.response and awaited, or the queue is flushed at once.
AfterResponse(run, builder, hook) ==
    LET r1 == [run EXCEPT !.own = builder.response,
                          !.wrote = builder.writes]
    IN  IF hook = None THEN Flush(r1, builder)
        ELSE IF HookThrows(hook)
            THEN [r1 EXCEPT !.pc = "rejected", !.hook = None,
                            !.error = HookError, !.arg = builder.response,
                            !.after = hook,
                            !.trace = Append(@, Event("after", 0))]
            ELSE [r1 EXCEPT
                    !.pc = "awaitAfter", !.hook = hook,
                    !.hookDone = ~IsAsyncHook(hook),
                    !.arg = builder.response,
                    !.after = hook,
                    !.trace = IF IsAsyncHook(hook)
                                THEN Append(@, Event("after", 1))
                                ELSE @ \o <<Event("after", 0),
                                            Event("afterDone", 0)>>]

\* The awaited axios(this.config) settles and run() resumes: the response
\* (or the response attached to a redirect-shaped error) is stored, any
\* other error is rethrown.
RunReceive(r, outcome) ==
    LET b == runs[r].b
        stored == StoreResponse(builders[b], outcome.response)
        run == [runs[r] EXCEPT !.reply = Some(outcome)]
    IN  /\ r \in Runs
        /\ runs[r].pc = "awaitNet"
        /\ IF outcome.ok \/ IsRedirectError(outcome)
            THEN /\ builders' = [builders EXCEPT ![b] = stored]
                 /\ runs' = [runs EXCEPT
                        ![r] = AfterResponse(run, stored,
                                             HooksOf(b)["afterRequest"])]
            ELSE /\ runs' = [runs EXCEPT
                        ![r] = [run EXCEPT
                                    !.pc = "rejected",
                                    !.error = TransportError(outcome)]]
                 /\ UNCHANGED builders
        /\ UNCHANGED <<hooks, objs, pending, netCalls, probe>>

\* The awaited afterRequest hook resumes and completes.
AfterResume(r) ==
    /\ r \in Runs
    /\ runs[r].pc = "awaitAfter"
    /\ ~runs[r].hookDone
    /\ runs' = [runs EXCEPT ![r] =
                    IF HookRejects(runs[r].hook)
                        THEN [@ EXCEPT !.pc = "rejected", !.hook = None,
                                       !.error = HookError]
                        ELSE [@ EXCEPT
                                !.hookDone = TRUE,
                                !.trace = Append(@, Event("afterDone", 0))]]
    /\ UNCHANGED <<hooks, objs, builders, pending, netCalls, probe>>

\* run() resumes after the afterRequest hook and flushes the queue.
RunAssert(r) ==
    /\ r \in Runs
    /\ runs[r].pc = "awaitAfter"
    /\ AfterSettled(runs[r])
    /\ runs' = [runs EXCEPT ![r] = Flush(@, builders[runs[r].b])]
    /\ UNCHANGED <<hooks, objs, builders, pending, netCalls, probe>>

\* A queued closure called directly, outside run(): assertionQueue[i]().
NoProbe == [b |-> 0, i |-> 0, empty |-> FALSE, outcome |-> None]

Invoke(b, i) ==
    /\ b \in Builders
    /\ i \in 1..Len(builders[b].assertionQueue)
    /\ probe' = [b |-> b, i |-> i,
                 empty |-> builders[b].response = NoResponse,
                 outcome |-> Eval(builders[b].assertionQueue[i],
                                  builders[b].response)]
    /\ UNCHANGED <<hooks, objs, builders, pending, runs, netCalls>>

(***************************************************************************)
(* Inputs.                                                                 *)
(***************************************************************************)
Endpoints == {"/users"}
Methods == {"GET", "POST"}
CreationHeaders == {<<>>, ("X-Trace" :> "1")}
HeaderArgs == {("X-Trace" :> "2"), ("Authorization" :> "Basic u")}
ParamArgs == {("page" :> "2"), ("limit" :> "10")}
Bodies == {"b1", "b2"}
NullBody == "null"

\* A success, a redirect reported as an error, and a network failure.
FewOutcomes ==
    {[ok |-> TRUE, response |-> R200],
     [ok |-> FALSE, response |-> R302],
     [ok |-> FALSE, response |-> NoResponse]}

\* The hooks the caller registers under each event.
HookArgs(event) ==
    CASE event = "beforeRequest" -> {"setAuth", "setAuthAsync", "raise"}
      [] event = "afterRequest" -> {"log", "logAsync", "raise"}
      [] OTHER -> {"log"}

\* The closures the caller queues.
AssertionArgs ==
    <<expectStatus(200), expectRedirect, expectHeaderExists("Content-Type")>>

Init ==
    /\ hooks = [e \in Events |-> None]
    /\ objs = <<>>
    /\ builders = <<>>
    /\ pending = {}
    /\ runs = <<>>
    /\ netCalls = 0
    /\ probe = NoProbe

Next ==
    \/ \E e \in {"beforeRequest", "afterRequest"} :
            \E h \in HookArgs(e) : on(e, h)
    \/ \E ep \in Endpoints, map \in CreationHeaders :
            Len(builders) < MaxBuilders /\ request(ep, 0, map, TRUE, NullBody)
    \/ \E p \in pending : CreationHookResume(p)
    \/ \E b \in Builders, i \in 1..Len(AssertionArgs) :
            register(b, AssertionArgs[i])
    \/ \E b \in Builders : Len(runs) < MaxRuns /\ RunStart(b)
    \/ \E r \in Runs : BeforeResume(r)
    \/ \E r \in Runs : RunSend(r)
    \/ \E r \in Runs, o \in TransportOutcomes : RunReceive(r, o)
    \/ \E r \in Runs : AfterResume(r)
    \/ \E r \in Runs : RunAssert(r)

Spec == Init /\ [][Next]_vars

\* The closures of every kind, queued and called directly or by run().
EveryAssertion ==
    <<expectStatus(200),
      expectHeader("Content-Type", AppJson),
      expectHeaderExists("Content-Type"),
      expectHeaderNotExists("X-Powered-By"),
      expectJson(UsersBody),
      expectJsonPath(<<"results", "[", "0", "]", ".", "name">>, JStr(John)),
      expectJsonLength(<<"results">>, 2),
      expectBodyContains(<<"n", "o">>),
      expectBodyMatches(<<"n">>),
      expectContentType(<<"j", "s", "o", "n">>),
      expectStatusInRange(200, 299),
      expectRedirect,
      expectCookie(<<"s">>, <<"a", "b", "c">>),
      expectCookieContains(<<"s">>, <<"a", "b">>),
      customAssertion("pass"),
      customAssertion("fail"),
      expectJsonKeyExists("results"),
      expectJsonKeyNotExists("error")>>

NextEval ==
    \/ \E ep \in Endpoints : Len(builders) < MaxBuilders /\ request(ep, 0, <<>>, FALSE, NullBody)
    \/ \E b \in Builders, i \in 1..Len(EveryAssertion) :
            register(b, EveryAssertion[i])
    \/ \E b \in Builders, i \in 1..MaxQueue : Invoke(b, i)
    \/ \E b \in Builders : Len(runs) < MaxRuns /\ RunStart(b)
    \/ \E r \in Runs, o \in TransportOutcomes : RunReceive(r, o)

SpecEval == Init /\ [][NextEval]_vars

\* request() and the mutators alone.
NextMut ==
    \/ on("beforeRequest", "setAuth")
    \/ \E ep \in Endpoints, map \in CreationHeaders :
            Len(builders) < MaxBuilders /\ request(ep, 0, map, TRUE, NullBody)
    \/ \E b \in Builders, m \in Methods : withMethod(b, m)
    \/ \E b \in Builders, h \in HeaderArgs : withHeaders(b, h)
    \/ \E b \in Builders, q \in ParamArgs : withQueryParams(b, q)
    \/ \E b \in Builders, d \in Bodies : withBody(b, d)

SpecMut == Init /\ [][NextMut]_vars

\* Every operation of the entry point and of the builder.
NextConfig ==
    \/ \E h \in HookArgs("beforeRequest") : on("beforeRequest", h)
    \/ on("afterRequest", "logAsync")
    \/ \E ep \in Endpoints :
            Len(builders) < MaxBuilders /\ request(ep, 0, ("X-Trace" :> "1"), TRUE, NullBody)
    \/ \E p \in pending : CreationHookResume(p)
    \/ \E b \in Builders : withMethod(b, "POST")
    \/ \E b \in Builders, h \in HeaderArgs : withHeaders(b, h)
    \/ \E b \in Builders : withQueryParams(b, ("page" :> "2"))
    \/ \E b \in Builders : withBody(b, "b1")
    \/ \E b \in Builders : register(b, expectStatus(200))
    \/ \E b \in Builders : Len(runs) < MaxRuns /\ RunStart(b)
    \/ \E r \in Runs : BeforeResume(r)
    \/ \E r \in Runs : RunSend(r)
    \/ \E r \in Runs, o \in FewOutcomes : RunReceive(r, o)
    \/ \E r \in Runs : AfterResume(r)
    \/ \E r \in Runs : RunAssert(r)

SpecConfig == Init /\ [][NextConfig]_vars

\* run() called again on the same builder.
NextRerun ==
    \/ on("beforeRequest", "setAuthAsync")
    \/ on("afterRequest", "logAsync")
    \/ \E ep \in Endpoints : Len(builders) < MaxBuilders /\ request(ep, 0, <<>>, FALSE, NullBody)
    \/ \E p \in pending : CreationHookResume(p)
    \/ \E b \in Builders, a \in {expectStatus(200),
                                   expectHeaderNotExists("X-Powered-By")} :
            register(b, a)
    \/ \E b \in Builders : Len(runs) < MaxReruns /\ RunStart(b)
    \/ \E r \in Runs : BeforeResume(r)
    \/ \E r \in Runs : RunSend(r)
    \/ \E r \in Runs, o \in FewOutcomes : RunReceive(r, o)
    \/ \E r \in Runs : AfterResume(r)
    \/ \E r \in Runs : RunAssert(r)

SpecRerun == Init /\ [][NextRerun]_vars

\* The hooks the caller registers when the subject is the hooks themselves:
\* under beforeTest and afterTest it registers hooks whose effects no hook
\* registered under the two request events has.
HooksUnder(event) ==
    CASE event = "beforeRequest" -> {"logAsync", "raise", "reject"}
      [] event = "afterRequest" -> {"log", "raise", "reject"}
      [] event = "beforeTest" -> {"setAuth"}
      [] event = "afterTest" -> {"setUrl"}

\* Registration at any moment, before and after a builder was created.
NextHooks ==
    \/ \E e \in Events : \E h \in HooksUnder(e) : on(e, h)
    \/ \E ep \in Endpoints :
            Len(builders) < MaxBuilders /\ request(ep, 0, <<>>, FALSE, NullBody)
    \/ \E p \in pending : CreationHookResume(p)
    \/ \E b \in Builders : withMethod(b, "POST")
    \/ \E b \in Builders : register(b, expectStatus(200))
    \/ \E b \in Builders : Len(runs) < MaxRuns /\ RunStart(b)
    \/ \E r \in Runs : BeforeResume(r)
    \/ \E r \in Runs : RunSend(r)
    \/ \E r \in Runs, o \in FewOutcomes : RunReceive(r, o)
    \/ \E r \in Runs : AfterResume(r)
    \/ \E r \in Runs : RunAssert(r)

SpecHooks == Init /\ [][NextHooks]_vars

\* Two builders, made from header objects the caller keeps and may pass to
\* request() again.
NextShare ==
    \/ on("beforeRequest", "setAuth")
    \/ \E ep \in Endpoints, arg \in 0..Len(objs), map \in CreationHeaders :
            Len(builders) < MaxShared /\ request(ep, arg, map, TRUE, NullBody)
    \/ \E b \in Builders : withHeaders(b, ("X-Trace" :> "2"))
    \/ \E b \in Builders : Len(runs) < MaxRuns /\ RunStart(b)
    \/ \E r \in Runs : RunSend(r)
    \/ \E r \in Runs, o \in FewOutcomes : RunReceive(r, o)

SpecShare == Init /\ [][NextShare]_vars

\* A response whose header names the transport delivers as the server
\* wrote them, and redirect responses at the limits of the 3xx range.
RMixed == [status |-> 200,
           headers |-> ("Content-Type" :> AppJson),
           data |-> UsersBody]
Moved(status) == [status |-> status,
                  headers |-> ("content-type" :> AppJson),
                  data |-> EmptyBody]

MatchOutcomes ==
    {[ok |-> TRUE, response |-> R200],
     [ok |-> TRUE, response |-> RMixed],
     [ok |-> FALSE, response |-> R302],
     [ok |-> FALSE, response |-> Moved(300)],
     [ok |-> FALSE, response |-> Moved(399)],
     [ok |-> FALSE, response |-> R404]}

\* Closures on status, headers, cookies and JSON paths, matching and not.
MatchAssertions ==
    <<expectStatus(200), expectStatus(300), expectStatus(302),
      expectStatus(399), expectRedirect,
      expectHeaderExists("Content-Type"),
      expectHeaderExists("content-type"),
      expectHeaderNotExists("X-Powered-By"),
      expectHeaderNotExists("Content-Type"),
      expectHeader("Content-Type", AppJson),
      expectCookie(<<"s">>, <<"a", "b", "c">>),
      expectCookie(<<"s">>, <<"a", "b">>),
      expectCookie(<<"s">>, <<"x", "y", "z">>),
      expectCookieContains(<<"s">>, <<"a", "b">>),
      expectJsonLength(<<"results">>, 2),
      expectJsonLength(<<"results">>, 3),
      expectJsonLength(<<"results">>, 0),
      expectJsonLength(<<"missing">>, 0),
      expectJsonLength(<<"results", ".", "0", ".", "name">>, 4),
      expectJsonPath(<<"results", "[", "0", "]", ".", "name">>, JStr(John)),
      expectJsonPath(<<"results", "[", "1", "]", ".", "name">>, JStr(John)),
      expectJsonPath(<<"results", "[", "2", "]", ".", "name">>, JStr(John))>>

\* Closures queued, then run() on a response of each shape.
NextMatch ==
    \/ \E ep \in Endpoints :
            Len(builders) < MaxBuilders /\ request(ep, 0, <<>>, FALSE, NullBody)
    \/ \E b \in Builders, i \in 1..Len(MatchAssertions) :
            register(b, MatchAssertions[i])
    \/ \E b \in Builders : Len(runs) < MaxRuns /\ RunStart(b)
    \/ \E r \in Runs, o \in MatchOutcomes : RunReceive(r, o)

SpecMatch == Init /\ [][NextMatch]_vars

\* Builders made while a hook that works on its context is registered.
NextSeed ==
    \/ \E h \in {"setUrl", "setUrlAsync", "setAuth", "setAuthAsync"} :
            on("beforeRequest", h)
    \/ \E ep \in Endpoints :
            Len(builders) < MaxBuilders
                /\ request(ep, 0, ("X-Trace" :> "1"), TRUE, NullBody)
    \/ \E p \in pending : CreationHookResume(p)
    \/ \E b \in Builders : withHeaders(b, ("X-Trace" :> "2"))
    \/ \E b \in Builders : Len(runs) < MaxRuns /\ RunStart(b)
    \/ \E r \in Runs : BeforeResume(r)
    \/ \E r \in Runs : RunSend(r)
    \/ \E r \in Runs, o \in FewOutcomes : RunReceive(r, o)

SpecSeed == Init /\ [][NextSeed]_vars

\* Registrants between all the other operations, under a beforeRequest
\* hook that sets a redirect limit.
NextQueue ==
    \/ \E h \in {"follow", "followAsync"} : on("beforeRequest", h)
    \/ on("afterRequest", "log")
    \/ \E ep \in Endpoints :
            Len(builders) < MaxBuilders /\ request(ep, 0, <<>>, FALSE, NullBody)
    \/ \E p \in pending : CreationHookResume(p)
    \/ \E b \in Builders : withMethod(b, "POST")
    \/ \E b \in Builders, a \in {expectStatus(200), expectRedirect} :
            register(b, a)
    \/ \E b \in Builders : Len(runs) < MaxRuns /\ RunStart(b)
    \/ \E r \in Runs : BeforeResume(r)
    \/ \E r \in Runs : RunSend(r)
    \/ \E r \in Runs, o \in FewOutcomes : RunReceive(r, o)
    \/ \E r \in Runs : RunAssert(r)

SpecQueue == Init /\ [][NextQueue]_vars

\* run() under hooks that suspend, raise or reject, for progress.
NextLive ==
    \/ \E h \in {"logAsync", "reject"} : on("beforeRequest", h)
    \/ \E h \in {"logAsync", "raise"} : on("afterRequest", h)
    \/ \E ep \in Endpoints :
            Len(builders) < MaxBuilders /\ request(ep, 0, <<>>, FALSE, NullBody)
    \/ \E p \in pending : CreationHookResume(p)
    \/ \E b \in Builders : register(b, expectStatus(200))
    \/ \E b \in Builders : Len(runs) < MaxRuns /\ RunStart(b)
    \/ \E r \in Runs : BeforeResume(r)
    \/ \E r \in Runs : RunSend(r)
    \/ \E r \in Runs, o \in FewOutcomes : RunReceive(r, o)
    \/ \E r \in Runs : AfterResume(r)
    \/ \E r \in Runs : RunAssert(r)

\* Every hook call run() awaits and every transport call settles, and the
\* event loop resumes a run() whose awaited promise has settled.
Progress ==
    \A r \in 1..MaxRuns :
        /\ WF_vars(BeforeResume(r))
        /\ WF_vars(RunSend(r))
        /\ WF_vars(\E o \in FewOutcomes : RunReceive(r, o))
        /\ WF_vars(AfterResume(r))
        /\ WF_vars(RunAssert(r))

SpecLive == Init /\ [][NextLive]_vars /\ Progress

(***************************************************************************)
(* Properties.                                                             *)
(***************************************************************************)
\* Position of the first event e of a trace, 0 when there is none.
Pos(trace, e) ==
    IF \E i \in 1..Len(trace) : trace[i].e = e
        THEN CHOOSE i \in 1..Len(trace) :
                /\ trace[i].e = e
                /\ \A j \in 1..(i - 1) : trace[j].e # e
        ELSE 0

Count(trace, e) == Cardinality({i \in 1..Len(trace) : trace[i].e = e})

\* The indices of the closures a run has called, in the order of the calls.
Executed(run) ==
    LET a == SelectSeq(run.trace, LAMBDA x : x.e = "assert")
    IN  [k \in 1..Len(a) |-> a[k].i]

\* The run has reached the forEach over the queue.
Flushed(run) == run.seenWrite > 0

\* A transport error that carries a response with a 3xx status.
RedirectShaped(outcome) ==
    /\ ~outcome.ok
    /\ outcome.response # NoResponse
    /\ outcome.response.status \in 300..399

\* C1: in every run(), a beforeRequest hook that was called has completed
\* (its suspension included) before the network call, and an afterRequest
\* hook that was called has completed before the first assertion executes.
C1_HooksAwaited ==
    \A r \in Runs :
        LET t == runs[r].trace
        IN  /\ (Pos(t, "before") > 0 /\ Pos(t, "net") > 0) =>
                    /\ Pos(t, "before") < Pos(t, "beforeDone")
                    /\ Pos(t, "beforeDone") < Pos(t, "net")
            /\ (Pos(t, "after") > 0 /\ Pos(t, "assert") > 0) =>
                    /\ Pos(t, "after") < Pos(t, "afterDone")
                    /\ Pos(t, "afterDone") < Pos(t, "assert")
            /\ (Pos(t, "after") > 0) => Pos(t, "net") < Pos(t, "after")

\* A run whose two hooks both suspended and which then executed a closure.
C1_Witness ==
    \E r \in Runs :
        /\ \E i \in 1..Len(runs[r].trace) :
                runs[r].trace[i] = Event("before", 1)
        /\ \E i \in 1..Len(runs[r].trace) :
                runs[r].trace[i] = Event("after", 1)
        /\ Pos(runs[r].trace, "assert") > 0

\* C2: run() calls the queued closures in registration order; when the
\* K-th is the first to fail, run() rejects with that failure and the
\* closures K+1..N are not called; when none fails all N are called.
C2_FifoFailFast ==
    \A r \in Runs :
        LET ex == Executed(runs[r])
            q == runs[r].queue
            failing == {k \in 1..Len(q) : Eval(q[k], runs[r].seen) # Ok}
        IN  /\ ex = [k \in 1..Len(ex) |-> k]
            /\ ~Flushed(runs[r]) => ex = <<>>
            /\ Flushed(runs[r]) =>
                IF failing = {}
                    THEN /\ runs[r].pc = "resolved"
                         /\ Len(ex) = Len(q)
                    ELSE LET K == CHOOSE k \in failing :
                                    \A j \in failing : k <= j
                         IN  /\ runs[r].pc = "rejected"
                             /\ runs[r].error =
                                    AssertionFailure(
                                        Eval(q[K], runs[r].seen), K)
                             /\ Len(ex) = K

\* A run with two queued closures whose first closure failed.
C2_Witness ==
    \E r \in Runs :
        /\ Len(runs[r].queue) = 2
        /\ runs[r].error.index = 1
        /\ Executed(runs[r]) = <<1>>

\* The run was ended by its beforeRequest hook raising.
BeforeRaised(run) ==
    run.pc = "rejected" /\ run.error = HookError /\ Pos(run.trace, "after") = 0

\* C3: each run() hands the transport at most one request, and exactly one
\* once it is past a beforeRequest hook that did not raise; the transport
\* is handed nothing outside run(): its count of requests is the number of
\* network calls the run() invocations made.
C3_OneNetworkCall ==
    /\ netCalls = Cardinality({r \in Runs : Count(runs[r].trace, "net") > 0})
    /\ \A r \in Runs :
            /\ Count(runs[r].trace, "net") <= 1
            /\ (runs[r].sent # Absent) <=> (Count(runs[r].trace, "net") = 1)
            /\ runs[r].pc = "awaitBefore" => Count(runs[r].trace, "net") = 0
            /\ runs[r].pc \in {"awaitNet", "awaitAfter", "resolved"} =>
                    Count(runs[r].trace, "net") = 1
            /\ runs[r].pc = "rejected" =>
                    (Count(runs[r].trace, "net") = 0 <=> BeforeRaised(runs[r]))

\* A builder that was mutated and given a closure, with hooks registered,
\* whose run() resolved: the transport was called once.
C3_Witness ==
    \E r \in Runs :
        /\ runs[r].pc = "resolved"
        /\ builders[runs[r].b].calls # <<>>
        /\ builders[runs[r].b].assertionQueue # <<>>
        /\ Pos(runs[r].trace, "before") > 0
        /\ Pos(runs[r].trace, "after") > 0
        /\ netCalls = 1

\* C4: a transport error with an attached 3xx response is not surfaced:
\* the attached response is stored in the Response Slot, is the argument
\* of afterRequest, and is what the closures are evaluated against (as long
\* as no other run() of the builder has assigned the slot in between).
C4_RedirectRecovered ==
    \A r \in Runs :
        (runs[r].reply # Absent /\ RedirectShaped(runs[r].reply[1])) =>
            LET resp == runs[r].reply[1].response
                b == builders[runs[r].b]
            IN  /\ runs[r].error.kind # "transport"
                /\ runs[r].own = resp
                /\ runs[r].wrote > 0
                /\ b.writes = runs[r].wrote => b.response = resp
                /\ Pos(runs[r].trace, "after") > 0 => runs[r].arg = resp
                /\ runs[r].pc = "rejected" /\ runs[r].error = HookError =>
                        Pos(runs[r].trace, "after") > 0
                /\ runs[r].pc \in {"awaitAfter", "resolved", "rejected"}
                /\ runs[r].pc \in {"resolved", "rejected"}
                        /\ runs[r].error # HookError => Flushed(runs[r])
                /\ (Flushed(runs[r]) /\ runs[r].seenWrite = runs[r].wrote) =>
                        runs[r].seen = resp

\* A run that resolved after a 302 came as an error, with an afterRequest
\* hook called and a closure executed.
C4_Witness ==
    \E r \in Runs :
        /\ runs[r].reply = Some([ok |-> FALSE, response |-> R302])
        /\ runs[r].pc = "resolved"
        /\ Pos(runs[r].trace, "after") > 0
        /\ Pos(runs[r].trace, "assert") > 0

\* C5: a transport error that is not redirect-shaped makes run() reject
\* with that error; afterRequest is not called, no closure is executed.
C5_OtherErrorsPropagate ==
    \A r \in Runs :
        (/\ runs[r].reply # Absent
         /\ ~runs[r].reply[1].ok
         /\ ~RedirectShaped(runs[r].reply[1])) =>
            /\ runs[r].pc = "rejected"
            /\ runs[r].error = [kind |-> "transport",
                                response |-> runs[r].reply[1].response,
                                index |-> 0]
            /\ Pos(runs[r].trace, "after") = 0
            /\ Pos(runs[r].trace, "assert") = 0
            /\ runs[r].own = NoResponse
            /\ runs[r].wrote = 0

\* A run rejected with a 404 error although an afterRequest hook is
\* registered and a closure is queued.
C5_Witness ==
    \E r \in Runs :
        /\ runs[r].reply = Some([ok |-> FALSE, response |-> R404])
        /\ runs[r].pc = "rejected"
        /\ hooks["afterRequest"] # None
        /\ builders[runs[r].b].assertionQueue # <<>>

\* C6: a queued closure of any kind, called while the Response Slot is
\* empty, raises the precondition error.
C6_PreconditionError ==
    (probe.outcome # None /\ probe.empty) => probe.outcome = Precondition

\* The argument of the last call of mutator op in a call history.
LastArg(calls, op, default) ==
    LET at == {i \in 1..Len(calls) : calls[i].op = op}
    IN  IF at = {} THEN default
        ELSE calls[CHOOSE i \in at : \A j \in at : j <= i]

\* Key by key: the value of the last withHeaders call that has the key,
\* else the value the builder was created with.
ExpectedHeaders(created, calls) ==
    LET at(k) == {i \in 1..Len(calls) :
                    calls[i].op = "withHeaders" /\ k \in DOMAIN calls[i].h}
        keys == DOMAIN created \cup
                UNION {DOMAIN calls[i].h :
                        i \in {j \in 1..Len(calls) :
                                calls[j].op = "withHeaders"}}
    IN  [k \in keys |->
            IF at(k) = {} THEN created[k]
            ELSE calls[CHOOSE i \in at(k) : \A j \in at(k) : j <= i].h[k]]

\* C7: after any sequence of mutator calls the method is the last
\* withMethod argument, the headers are the creation headers merged key by
\* key with the withHeaders arguments in call order, the query parameters
\* and the body are the last withQueryParams / withBody argument, and every
\* other field is as it was constructed.
C7_MutatorsCompose ==
    \A b \in Builders :
        LET c == builders[b].config
            calls == builders[b].calls
            made == builders[b].created
        IN  /\ c.method = LastArg(calls, "withMethod",
                                  Call("", Unset, <<>>)).s
            /\ HeadersOf(b) = ExpectedHeaders(made.headers, calls)
            /\ c.params =
                IF \E i \in 1..Len(calls) : calls[i].op = "withQueryParams"
                    THEN Some(LastArg(calls, "withQueryParams",
                                      Call("", "", <<>>)).h)
                    ELSE Absent
            /\ c.data = LastArg(calls, "withBody",
                                Call("", made.body, <<>>)).s
            /\ c.url = made.endpoint
            /\ c.baseURL = BaseUrl
            /\ c.maxRedirects = Absent

\* Two withHeaders calls on a builder created with headers: one overwrites
\* the creation value of a key, the other adds a key.
C7_Witness ==
    \E b \in Builders :
        /\ builders[b].created.headers = ("X-Trace" :> "1")
        /\ Len(builders[b].calls) = 2
        /\ builders[b].calls[1].op = "withHeaders"
        /\ builders[b].calls[2].op = "withHeaders"
        /\ HeadersOf(b) =
                ("X-Trace" :> "2" @@ "Authorization" :> "Basic u")

\* C8: when the beforeRequest hook run() calls sets Authorization on its
\* context's headers, the request the transport receives carries that
\* header with the hook's value, whatever mutator calls were made between
\* request() and run().
C8_AuthorizationSent ==
    \A r \in Runs :
        (/\ runs[r].sent # Absent
         /\ SetsAuth(runs[r].before)
         /\ runs[r].sentAt = runs[r].started) =>
            /\ "Authorization" \in DOMAIN runs[r].sent[1].headers
            /\ runs[r].sent[1].headers["Authorization"] = Token

\* withHeaders() set another Authorization value before run(); the hook
\* suspended, and the request went out with the hook's value.
C8_Witness ==
    \E r \in Runs :
        /\ runs[r].sent # Absent
        /\ runs[r].before = "setAuthAsync"
        /\ runs[r].started > 0
        /\ runs[r].sentAt = runs[r].started
        /\ \E i \in 1..runs[r].started :
                builders[runs[r].b].calls[i] =
                    Call("withHeaders", "", ("Authorization" :> "Basic u"))
        /\ runs[r].sent[1].headers["Authorization"] = Token

\* The transport call of the run produced a response that run() stores.
GotResponse(run) ==
    /\ run.reply # Absent
    /\ run.reply[1].ok \/ RedirectShaped(run.reply[1])

IsPrefix(p, q) == Len(p) <= Len(q) /\ SubSeq(q, 1, Len(p)) = p

\* C9: a run() started after an earlier run() of the builder has resolved
\* goes through the whole pipeline again: the hook registered under
\* beforeRequest is called, a new network call is made, afterRequest gets
\* the new response, and the same closures are evaluated in the same order
\* against the new response (as long as no other run() assigns the slot in
\* between).
C9_RerunReexecutes ==
    \A r \in Runs :
        runs[r].prior # {} =>
            /\ runs[r].before # None => Pos(runs[r].trace, "before") = 1
            /\ (runs[r].pc \notin {"awaitBefore"} /\ ~BeforeRaised(runs[r])) =>
                    /\ Count(runs[r].trace, "net") = 1
                    /\ runs[r].sent # Absent
            /\ GotResponse(runs[r]) =>
                    /\ runs[r].own = runs[r].reply[1].response
                    /\ Pos(runs[r].trace, "after") > 0 =>
                            runs[r].arg = runs[r].reply[1].response
                    /\ (Flushed(runs[r])
                            /\ runs[r].seenWrite = runs[r].wrote) =>
                                runs[r].seen = runs[r].reply[1].response
            /\ Flushed(runs[r]) =>
                    /\ \A p \in runs[r].prior :
                            IsPrefix(runs[p].queue, runs[r].queue)
                    /\ Executed(runs[r]) =
                            [k \in 1..Len(Executed(runs[r])) |-> k]
                    /\ runs[r].pc = "resolved" =>
                            Len(Executed(runs[r])) = Len(runs[r].queue)

\* The first run() resolved on a 200; the second, with both hooks called
\* again, got a 302 and its expectStatus(200) failed on it.
C9_Witness ==
    \E r \in Runs :
        /\ runs[r].prior # {}
        /\ runs[r].own = R302
        /\ runs[r].seen = R302
        /\ runs[r].pc = "rejected"
        /\ runs[r].error.kind = Mismatch
        /\ Pos(runs[r].trace, "before") > 0
        /\ Pos(runs[r].trace, "after") > 0
        /\ \E p \in Runs : runs[p].pc = "resolved" /\ runs[p].seen = R200

\* C10 as stated: the Response Slot is assigned at most once over the
\* lifetime of the builder.
C10_SingleAssignment == \A b \in Builders : builders[b].writes <= 1

\* C10 as amended: the Response Slot is empty from construction until a
\* run() obtains a response, is written only by run(), at most once per
\* run() invocation, and then holds the response of the run() that wrote
\* it last.
C10_SlotWrittenByRun ==
    \A b \in Builders :
        LET writers == {r \in Runs : runs[r].b = b /\ runs[r].wrote > 0}
        IN  /\ builders[b].writes = Cardinality(writers)
            /\ \A r \in writers : GotResponse(runs[r])
            /\ \A r, p \in writers : runs[r].wrote = runs[p].wrote => r = p
            /\ (builders[b].response = NoResponse) <=> (writers = {})
            /\ writers # {} =>
                    \E r \in writers :
                        /\ runs[r].wrote = builders[b].writes
                        /\ runs[r].own = builders[b].response

\* The slot was assigned by a first run() and again by a second one.
C10_Witness ==
    \E b \in Builders :
        /\ builders[b].writes = 2
        /\ \E r, p \in Runs :
                /\ runs[r].b = b /\ runs[p].b = b
                /\ runs[r].wrote = 1 /\ runs[p].wrote = 2
                /\ runs[r].own # runs[p].own

\* The hook kinds whose call throws or whose promise rejects.
Failing == {"raise", "reject"}

\* C11: when the beforeRequest hook raises, or its promise rejects, run()
\* rejects with the hook's error and there is no network call, no
\* afterRequest call and no closure executed; when the afterRequest hook
\* raises or rejects, run() rejects with the hook's error and no closure is
\* executed.
C11_HookErrorAborts ==
    \A r \in Runs :
        /\ runs[r].before \in Failing =>
                /\ Count(runs[r].trace, "net") = 0
                /\ runs[r].sent = Absent
                /\ runs[r].reply = Absent
                /\ runs[r].after = None
                /\ Executed(runs[r]) = <<>>
                /\ ~Flushed(runs[r])
                /\ runs[r].pc # "awaitBefore" =>
                        /\ runs[r].pc = "rejected"
                        /\ runs[r].error.kind = "hook"
        /\ runs[r].after \in Failing =>
                /\ Executed(runs[r]) = <<>>
                /\ ~Flushed(runs[r])
                /\ runs[r].pc # "awaitAfter" =>
                        /\ runs[r].pc = "rejected"
                        /\ runs[r].error.kind = "hook"

\* The promise of the afterRequest hook rejected after the response had
\* arrived, on a builder with a closure queued.
C11_Witness ==
    \E r \in Runs :
        /\ runs[r].after = "reject"
        /\ runs[r].pc = "rejected"
        /\ GotResponse(runs[r])
        /\ builders[runs[r].b].assertionQueue # <<>>

\* C12: at each hook point run() calls the hook the entry point's Hook Set
\* holds for the event at that moment (none when it holds none), whatever
\* was registered when the builder was created, and it calls one hook per
\* hook point.
C12_CurrentHookInvoked ==
    [][/\ Len(runs') = Len(runs) + 1 =>
            runs'[Len(runs')].before = hooks["beforeRequest"]
       /\ \A r \in Runs :
            /\ (runs[r].reply = Absent /\ GotResponse(runs'[r])) =>
                    runs'[r].after = hooks["afterRequest"]
            /\ Count(runs'[r].trace, "before") <= 1
            /\ Count(runs'[r].trace, "after") <= 1]_vars

\* A builder made while no hook was registered, whose run() called a
\* beforeRequest and an afterRequest hook registered later.
C12_Witness ==
    \E r \in Runs :
        /\ builders[runs[r].b].hooked = <<>>
        /\ runs[r].before = "logAsync"
        /\ runs[r].after = "log"
        /\ runs[r].pc = "resolved"

\* The step is an operation on builder b: a mutator call on it, a step of
\* a run() on it, or its creation-time hook resuming.
OperationOn(b) ==
    \/ builders'[b].calls # builders[b].calls
    \/ \E r \in DOMAIN runs' :
            runs'[r].b = b /\ (r \notin Runs \/ runs'[r] # runs[r])
    \/ \E p \in pending \ pending' : p.b = b

\* C13: the Request Configuration of a builder, its header mapping
\* included, changes only in steps that are operations on that builder: no
\* operation on another builder, its creation included, changes it.
C13_ConfigNotShared ==
    [][\A b \in Builders :
            Snapshot(objs', builders'[b].config)
                    # Snapshot(objs, builders[b].config)
                => OperationOn(b)]_vars

\* The closures a run has called, and how the i-th one ended.
Called(run) == {Executed(run)[k] : k \in 1..Len(Executed(run))}
Passed(run, i) == i \in Called(run) /\ run.error.index # i
Failed(run, i) == i \in Called(run) /\ run.error.index = i

\* C14: an expectCookie(name, value) closure succeeds exactly when an entry
\* of the response's set-cookie collection (empty when the header is
\* absent) equals name=value, and fails with an assertion mismatch
\* otherwise.
C14_CookieEquals ==
    \A r \in Runs : \A i \in Called(runs[r]) :
        LET a == runs[r].queue[i]
            cookies == CookiesOf(runs[r].seen)
        IN  a.kind = "expectCookie" =>
                /\ Passed(runs[r], i) <=>
                        \E k \in 1..Len(cookies) :
                            cookies[k] = a.p \o <<"=">> \o a.q
                /\ Failed(runs[r], i) => runs[r].error.kind = Mismatch

\* The response has a header of that name, letter case aside.
HasHeader(resp, name) ==
    \E k \in DOMAIN resp.headers : ToLowerCase(k) = ToLowerCase(name)

\* C15: the header closures compare names with letter case set aside on
\* both sides: expectHeaderExists succeeds exactly when the response has
\* the header in some letter case, expectHeaderNotExists exactly when it
\* has it in none, expectHeader exactly when it has it with that value.
C15_HeaderCaseInsensitive ==
    \A r \in Runs : \A i \in Called(runs[r]) :
        LET a == runs[r].queue[i]
            resp == runs[r].seen
        IN  /\ a.kind = "expectHeaderExists" =>
                    (Passed(runs[r], i) <=> HasHeader(resp, a.s))
            /\ a.kind = "expectHeaderNotExists" =>
                    (Passed(runs[r], i) <=> ~HasHeader(resp, a.s))
            /\ a.kind = "expectHeader" =>
                    (Passed(runs[r], i) <=>
                        \E k \in DOMAIN resp.headers :
                            /\ ToLowerCase(k) = ToLowerCase(a.s)
                            /\ resp.headers[k] = a.q)

\* C16: when run() has recovered the response attached to a redirect-shaped
\* error, a queued expectRedirect succeeds and so does an expectStatus of
\* the attached status; on the 302 with the session cookie, the two cookie
\* closures that name the cookie succeed and the one with another value
\* fails (each closure reading the response this run() stored).
C16_RedirectAsserts ==
    \A r \in Runs :
        (/\ runs[r].reply # Absent
         /\ RedirectShaped(runs[r].reply[1])
         /\ runs[r].seenWrite = runs[r].wrote) =>
            \A i \in Called(runs[r]) :
                LET a == runs[r].queue[i]
                    resp == runs[r].reply[1].response
                IN  /\ a = expectRedirect => Passed(runs[r], i)
                    /\ (a.kind = "expectStatus" /\ a.n = resp.status) =>
                            Passed(runs[r], i)
                    /\ resp = R302 =>
                        /\ a = expectCookie(<<"s">>, <<"a", "b", "c">>) =>
                                Passed(runs[r], i)
                        /\ a = expectCookieContains(<<"s">>, <<"a", "b">>) =>
                                Passed(runs[r], i)
                        /\ a = expectCookie(<<"s">>, <<"x", "y", "z">>) =>
                                /\ Failed(runs[r], i)
                                /\ runs[r].error.kind = Mismatch

\* A 302 recovered from the error: expectRedirect and the cookie closure
\* both succeeded and run() resolved.
C16_Witness ==
    \E r \in Runs :
        /\ runs[r].reply = Some([ok |-> FALSE, response |-> R302])
        /\ runs[r].queue =
                <<expectRedirect, expectCookie(<<"s">>, <<"a", "b", "c">>)>>
        /\ Executed(runs[r]) = <<1, 2>>
        /\ runs[r].pc = "resolved"

\* The keys a path names, and the value reached by following them from a
\* value: undefined as soon as a key is missing.
Keys(path) == SelectSeq(path, LAMBDA tok : tok \notin {".", "[", "]"})

RECURSIVE Reached(_, _)
Reached(value, keys) ==
    IF keys = <<>> THEN value
    ELSE Reached(PropertyRead(value, Head(keys)), Tail(keys))

\* C17: expectJsonLength(path, n) succeeds exactly when the value reached
\* by following the keys of the path from the body has length n, and fails
\* with an assertion mismatch otherwise, a missing key included;
\* expectJsonPath(path, v), bracket indices resolved, succeeds exactly when
\* the value reached equals v.
C17_JsonLengthAndPath ==
    \A r \in Runs : \A i \in Called(runs[r]) :
        LET a == runs[r].queue[i]
            v == Reached(runs[r].seen.data, Keys(a.q))
        IN  /\ a.kind = "expectJsonLength" =>
                /\ Passed(runs[r], i) <=>
                        (v.t \in {"arr", "str"} /\ Len(v.v) = a.n)
                /\ Failed(runs[r], i) => runs[r].error.kind = Mismatch
            /\ a.kind = "expectJsonPath" =>
                    (Passed(runs[r], i) <=> (v.t = a.j.t /\ v.v = a.j.v))

\* The hooks the caller registers under the two test events.
TestHooks == HooksUnder("beforeTest") \cup HooksUnder("afterTest")

\* C18: the hooks stored under beforeTest and afterTest are called by no
\* operation: no request(), no run() and no suspended hook call is a call
\* of one of them, and nothing shows the effect of one (no Authorization
\* header, no rewritten endpoint).
C18_TestHooksNeverInvoked ==
    /\ \A p \in pending : p.hook \notin TestHooks
    /\ \A b \in Builders :
            /\ \A k \in 1..Len(builders[b].hooked) :
                    builders[b].hooked[k] \notin TestHooks
            /\ "Authorization" \notin DOMAIN HeadersOf(b)
            /\ builders[b].config.url # Rewritten
            /\ builders[b].context.endpoint # Rewritten
    /\ \A r \in Runs :
            /\ runs[r].before \notin TestHooks
            /\ runs[r].after \notin TestHooks
            /\ runs[r].hook \notin TestHooks
            /\ runs[r].sent # Absent =>
                    /\ "Authorization" \notin DOMAIN runs[r].sent[1].headers
                    /\ runs[r].sent[1].url # Rewritten

\* A run() started while hooks were registered under both test events went
\* through the whole pipeline, a closure included, and resolved.
C18_Witness ==
    \E r \in Runs :
        /\ runs[r].tests = <<"setAuth", "setUrl">>
        /\ runs[r].pc = "resolved"
        /\ Executed(runs[r]) # <<>>

\* The creation-time hook call of builder b has completed.
CreationHookDone(b) == \A p \in pending : p.b # b

\* No withHeaders call was made on the builder.
KeepsHeaderObject(b) ==
    \A k \in 1..Len(builders[b].calls) : builders[b].calls[k].op # "withHeaders"

C20_CreationHookNotAwaited ==
    [][/\ Len(builders') = Len(builders) + 1 =>
            LET b == Len(builders')
                hook == hooks["beforeRequest"]
            IN  /\ builders'[b].hooked =
                        IF hook = None THEN <<>> ELSE <<hook>>
                /\ IsAsyncHook(hook) <=> (\E p \in pending' : p.b = b)
       /\ \A r \in DOMAIN runs' :
            (runs'[r].before # None /\ runs'[r].sent # Absent) =>
                /\ Pos(runs'[r].trace, "beforeDone") > 0
                /\ Pos(runs'[r].trace, "beforeDone")
                        < Pos(runs'[r].trace, "net")]_vars

\* The creation-time hook is still suspended while a mutator has been
\* called on the builder and a run() on it, its own hook call awaited, has
\* made its network call.
C20_Witness ==
    \E p \in pending :
        /\ builders[p.b].calls # <<>>
        /\ \E r \in Runs :
                /\ runs[r].b = p.b
                /\ runs[r].before = "logAsync"
                /\ runs[r].sent # Absent

\* C21: the Assertion Queue only grows at its end: a step either leaves the
\* queue of a builder as it is (mutators, every step of run(), hooks) or
\* appends one closure to it, and the step that appends evaluates nothing:
\* no run moves, no closure is called, the Response Slot stays.
C21_QueueAppendOnly ==
    [][\A b \in Builders :
        LET old == builders[b].assertionQueue
            new == builders'[b].assertionQueue
        IN  /\ IsPrefix(old, new)
            /\ Len(new) <= Len(old) + 1
            /\ new # old =>
                    /\ runs' = runs
                    /\ probe' = probe
                    /\ netCalls' = netCalls
                    /\ builders'[b] = [builders[b] EXCEPT
                                            !.assertionQueue = new]]_vars

\* Two closures queued, the second after the first; a mutator was called,
\* and a run() flushed both and was rejected by the second.
C21_Witness ==
    \E r \in Runs :
        /\ builders[runs[r].b].assertionQueue
                = <<expectRedirect, expectStatus(200)>>
        /\ builders[runs[r].b].calls # <<>>
        /\ runs[r].queue = builders[runs[r].b].assertionQueue
        /\ runs[r].pc = "rejected"
        /\ runs[r].error.index = 2

\* C22: every request run() hands to the transport has maxRedirects = 0,
\* also when the beforeRequest hook it awaited has written another limit
\* into the configuration.
C22_RedirectsDisabled ==
    \A r \in Runs :
        runs[r].sent # Absent => runs[r].sent[1].maxRedirects = Some(0)

\* The hook run() awaited set a limit after suspending, and the request
\* went out.
C22_Witness ==
    \E r \in Runs :
        /\ runs[r].before = "followAsync"
        /\ Pos(runs[r].trace, "beforeDone") > 0
        /\ runs[r].sent # Absent

\* C23: a run() that has flushed the queue had its closures read the
\* response of its own network call, also when another run() on the same
\* builder was under way at the same time.
C23_OwnResponse ==
    \A r \in Runs :
        (Flushed(runs[r]) /\ GotResponse(runs[r])) =>
            runs[r].seen = runs[r].reply[1].response

\* C24: every run() invocation eventually resolves or rejects, given that
\* the hook calls it awaits and its transport call settle; it makes its
\* network call at most once.
C24_RunCompletes ==
    /\ \A r \in 1..MaxRuns :
            (r \in Runs) ~>
                (r \in Runs /\ runs[r].pc \in {"resolved", "rejected"})
    /\ [](\A r \in Runs : Count(runs[r].trace, "net") <= 1)

\* A run() that waited for both hooks and for the transport, flushed a
\* queue of MaxQueue closures and resolved.
C24_Witness ==
    \E r \in Runs :
        /\ runs[r].pc = "resolved"
        /\ runs[r].before = "logAsync"
        /\ runs[r].after = "logAsync"
        /\ Len(Executed(runs[r])) = MaxQueue

====
